---- MODULE Spec2Model ----
(***************************************************************************)
(* Model of the DataTable component (src/components/DataTable/DataTable.tsx)*)
(* as a state machine: the component's hooks (sortState, selectedRows,     *)
(* selectAll), the memoised sortedData, the caller's props (data, rowKey,  *)
(* selectable, onRowSelect, pagination, loading, emptyText) and the calls  *)
(* made to the caller's callbacks; and of the InputField component         *)
(* (src/components/InputField/InputField.tsx, printed in                   *)
(* PROJECT_SUMMARY.md): its props and hooks, held in inputField.           *)
(*                                                                         *)
(* JavaScript values are encoded uniformly as records [t, s, n]: t is the  *)
(* typeof tag ("string", "number", "null", "undefined"), s the characters  *)
(* of a string (a tuple of one-character strings), n the number.           *)
(***************************************************************************)
EXTENDS Integers, Sequences, FiniteSets, TLC

VARIABLES data, sortedData, sortState, selectedRows, selectAll,
          rowKey, selectable, onRowSelect, event, reported,
          pagination, loading, emptyText, inputField

vars == <<data, sortedData, sortState, selectedRows, selectAll,
          rowKey, selectable, onRowSelect, event, reported,
          pagination, loading, emptyText, inputField>>

\* The props that only the caller changes.
props == <<pagination, loading, emptyText>>

\* ------------------------------------------------------------------ bounds
\* Largest record collection the caller supplies to the grid.
MaxLen == 2

\* Largest record collection handed to the sort on its own.
MaxSortLen == 3

\* Largest current page, page size and total count of a pagination
\* descriptor.
MaxPage == 3
MaxPageSize == 3
MaxTotal == 5

\* Longest text typed into an input or supplied as its value prop.
MaxTextLen == 1

\* ------------------------------------------------------- JavaScript values
Str(s) == [t |-> "string", s |-> s, n |-> 0]
Num(n) == [t |-> "number", s |-> <<>>, n |-> n]
Null == [t |-> "null", s |-> <<>>, n |-> 0]
Undefined == [t |-> "undefined", s |-> <<>>, n |-> 0]

IsNullish(v) == v.t \in {"null", "undefined"}

\* Collation order of the characters used: digits before letters.
Alphabet ==
  <<"0", "1", "2", "3", "4", "5", "6", "7", "8", "9",
    "a", "b", "c", "d", "e", "f", "g", "h", "i", "j", "k", "l", "m",
    "n", "o", "p", "q", "r", "s", "t", "u", "v", "w", "x", "y", "z">>

Rank(c) == CHOOSE i \in 1..Len(Alphabet) : Alphabet[i] = c

\* String.prototype.localeCompare on two character sequences.
RECURSIVE localeCompare(_, _)
localeCompare(a, b) ==
  IF a = <<>> /\ b = <<>> THEN 0
  ELSE IF a = <<>> THEN -1
  ELSE IF b = <<>> THEN 1
  ELSE IF Rank(Head(a)) < Rank(Head(b)) THEN -1
  ELSE IF Rank(Head(a)) > Rank(Head(b)) THEN 1
  ELSE localeCompare(Tail(a), Tail(b))

\* Decimal digits of a non-negative integer.
RECURSIVE NumToStr(_)
NumToStr(n) ==
  IF n < 10 THEN <<Alphabet[n + 1]>>
  ELSE NumToStr(n \div 10) \o <<Alphabet[(n % 10) + 1]>>

\* String(value)
String(v) ==
  IF v.t = "string" THEN v.s
  ELSE IF v.t = "number" THEN NumToStr(v.n)
  ELSE IF v.t = "null" THEN <<"n", "u", "l", "l">>
  ELSE <<"u", "n", "d", "e", "f", "i", "n", "e", "d">>

\* record[field]: a field the record does not have reads as undefined.
Field(record, field) ==
  IF field \in DOMAIN record THEN record[field] ELSE Undefined

\* ------------------------------------------------------------------ inputs
\* The records the caller draws its collections from.
Records ==
  { [id |-> Num(1), name |-> Str(<<"a">>)],
    [id |-> Num(2), name |-> Str(<<"b">>)],
    [id |-> Num(3), name |-> Null],
    [id |-> Num(10), name |-> Str(<<"a">>)] }

\* The column schema: two sortable data columns, a sortable column whose key
\* names no field of the records, and a column that is not sortable.  render
\* names the column's formatter, "" when it has none.
Columns ==
  << [key |-> "id", dataIndex |-> "id", sortable |-> TRUE, render |-> ""],
     [key |-> "name", dataIndex |-> "name", sortable |-> TRUE, render |-> ""],
     [key |-> "label", dataIndex |-> "name", sortable |-> TRUE,
      render |-> ""],
     [key |-> "actions", dataIndex |-> "id", sortable |-> FALSE,
      render |-> "renderActions"] >>

\* The rowKey props modelled: absent, or a field name.
NoRowKey == "none"
RowKeys == {NoRowKey, "id", "name"}

\* The records of the grid's collections: distinct ids, a repeated name.
GridRecords == { r \in Records : r.name # Null }

\* Sequences of distinct records of R, at most n long.
DistinctSeqs(R, n) ==
  { d \in UNION { [1..k -> R] : k \in 0..n } :
      \A i, j \in DOMAIN d : i # j => d[i] # d[j] }

Collections == DistinctSeqs(GridRecords, MaxLen)

SortCollections == DistinctSeqs(Records, MaxSortLen)

\* Records whose name field holds strings in some and numbers in others.
MixedRecords ==
  { [id |-> Num(2), name |-> Str(<<"b">>)],
    [id |-> Num(10), name |-> Num(10)],
    [id |-> Num(3), name |-> Num(9)],
    [id |-> Num(4), name |-> Str(<<"9">>)],
    [id |-> Num(5), name |-> Str(<<"a">>)] }

\* The collections of two records, which the sort orders with one
\* comparison.
PairCollections == { d \in DistinctSeqs(MixedRecords, 2) : Len(d) = 2 }

\* --------------------------------------------------------------- SortState
NoSort == [key |-> "", direction |-> "none"]
SortStates ==
  {NoSort} \cup [key : {Columns[i].key : i \in DOMAIN Columns},
                 direction : {"asc", "desc"}]

\* ------------------------------------------------------------- getRowKey
\* Variant of getRowKey: without a rowKey prop the identity falls back to the
\* record's id field instead of the position.
getRowKey_DefaultId(rk, record, index) ==
  IF rk # NoRowKey THEN String(Field(record, rk))
  ELSE String(Field(record, "id"))

\* Variant of getRowKey: the identity is the position, whatever the rowKey
\* prop is.
getRowKey_IgnoresSelector(rk, record, index) == NumToStr(index)

\* index is the 0-based position in the sorted view.
getRowKey(rk, record, index) ==
  IF rk # NoRowKey THEN String(Field(record, rk))
  ELSE NumToStr(index)

\* -------------------------------------------------------------- sortedData
\* Variant of the comparator: the direction also flips the placement of
\* null and undefined values.
compare_NullsFlipped(a, b, ss) ==
  LET aValue == Field(a, ss.key)
      bValue == Field(b, ss.key)
      comparison ==
        IF aValue = bValue THEN 0
        ELSE IF IsNullish(aValue) THEN 1
        ELSE IF IsNullish(bValue) THEN -1
        ELSE IF aValue.t = "string" /\ bValue.t = "string"
          THEN localeCompare(aValue.s, bValue.s)
        ELSE IF aValue.t = "number" /\ bValue.t = "number"
          THEN aValue.n - bValue.n
        ELSE localeCompare(String(aValue), String(bValue))
  IN  IF ss.direction = "asc" THEN comparison ELSE -comparison

\* Variant of the comparator: the direction is not applied.
compare_IgnoresDirection(a, b, ss) ==
  LET aValue == Field(a, ss.key)
      bValue == Field(b, ss.key)
  IN  IF aValue = bValue THEN 0
      ELSE IF IsNullish(aValue) THEN 1
      ELSE IF IsNullish(bValue) THEN -1
      ELSE IF aValue.t = "string" /\ bValue.t = "string"
        THEN localeCompare(aValue.s, bValue.s)
      ELSE IF aValue.t = "number" /\ bValue.t = "number"
        THEN aValue.n - bValue.n
      ELSE localeCompare(String(aValue), String(bValue))

\* Variant of the comparator: the records are compared on the field that
\* the sorted column displays (its dataIndex).
compare_ByDataIndex(a, b, ss) ==
  LET column == Columns[CHOOSE c \in DOMAIN Columns : Columns[c].key = ss.key]
      aValue == Field(a, column.dataIndex)
      bValue == Field(b, column.dataIndex)
  IN  IF aValue = bValue THEN 0
      ELSE IF IsNullish(aValue) THEN 1
      ELSE IF IsNullish(bValue) THEN -1
      ELSE LET comparison ==
                 IF aValue.t = "string" /\ bValue.t = "string"
                   THEN localeCompare(aValue.s, bValue.s)
                 ELSE IF aValue.t = "number" /\ bValue.t = "number"
                   THEN aValue.n - bValue.n
                 ELSE localeCompare(String(aValue), String(bValue))
           IN  IF ss.direction = "asc" THEN comparison ELSE -comparison

\* Variant of the comparator: every pair is compared on its string forms.
compare_NumbersAsStrings(a, b, ss) ==
  LET aValue == Field(a, ss.key)
      bValue == Field(b, ss.key)
  IN  IF aValue = bValue THEN 0
      ELSE IF IsNullish(aValue) THEN 1
      ELSE IF IsNullish(bValue) THEN -1
      ELSE LET comparison == localeCompare(String(aValue), String(bValue))
           IN  IF ss.direction = "asc" THEN comparison ELSE -comparison

\* The comparator handed to Array.prototype.sort.
compare(a, b, ss) ==
  LET aValue == Field(a, ss.key)
      bValue == Field(b, ss.key)
  IN  IF aValue = bValue THEN 0
      ELSE IF IsNullish(aValue) THEN 1
      ELSE IF IsNullish(bValue) THEN -1
      ELSE LET comparison ==
                 IF aValue.t = "string" /\ bValue.t = "string"
                   THEN localeCompare(aValue.s, bValue.s)
                 ELSE IF aValue.t = "number" /\ bValue.t = "number"
                   THEN aValue.n - bValue.n
                 ELSE localeCompare(String(aValue), String(bValue))
           IN  IF ss.direction = "asc" THEN comparison ELSE -comparison

\* Variant of the sort that is not stable: an element is placed before the
\* elements already placed that compare equal to it.
RECURSIVE InsertSorted_Unstable(_, _, _)
InsertSorted_Unstable(sorted, x, ss) ==
  IF sorted = <<>> THEN <<x>>
  ELSE IF compare(sorted[Len(sorted)], x, ss) >= 0
    THEN InsertSorted_Unstable(SubSeq(sorted, 1, Len(sorted) - 1), x, ss)
           \o <<sorted[Len(sorted)]>>
  ELSE sorted \o <<x>>

\* Array.prototype.sort is stable: an element is placed after every element
\* already placed that does not compare greater than it.
RECURSIVE InsertSorted(_, _, _)
InsertSorted(sorted, x, ss) ==
  IF sorted = <<>> THEN <<x>>
  ELSE IF compare(sorted[Len(sorted)], x, ss) > 0
    THEN InsertSorted(SubSeq(sorted, 1, Len(sorted) - 1), x, ss)
           \o <<sorted[Len(sorted)]>>
  ELSE sorted \o <<x>>

\* Variant of the sort: the elements are placed from the last to the first,
\* so elements that compare equal end in the reverse of their input order.
RECURSIVE ArraySort_FromEnd(_, _)
ArraySort_FromEnd(arr, ss) ==
  IF arr = <<>> THEN <<>>
  ELSE InsertSorted(ArraySort_FromEnd(Tail(arr), ss), Head(arr), ss)

RECURSIVE ArraySort(_, _)
ArraySort(arr, ss) ==
  IF arr = <<>> THEN <<>>
  ELSE InsertSorted(ArraySort(SubSeq(arr, 1, Len(arr) - 1), ss),
                    arr[Len(arr)], ss)

\* Variant of the useMemo body: data.sort(...) without the copy, which sorts
\* the caller's array in place.
sortedDataMemo_InPlace(d, ss) ==
  IF ss = NoSort THEN [data |-> d, sortedData |-> d]
  ELSE [data |-> ArraySort(d, ss), sortedData |-> ArraySort(d, ss)]

\* The useMemo body.  The result names both arrays involved: .data is the
\* caller's array after the computation, .sortedData the value memoised.
\* [...data] copies, so the sort leaves the caller's array alone.
sortedDataMemo(d, ss) ==
  IF ss = NoSort THEN [data |-> d, sortedData |-> d]
  ELSE [data |-> d, sortedData |-> ArraySort(d, ss)]

\* ---------------------------------------------------------------- handleSort
\* Variant of the updater: a two-state toggle that never returns to none.
handleSortUpdater_TwoState(prev, column) ==
  IF prev = NoSort \/ prev.key # column.key
    THEN [key |-> column.key, direction |-> "asc"]
  ELSE IF prev.direction = "asc"
    THEN [key |-> column.key, direction |-> "desc"]
  ELSE [key |-> column.key, direction |-> "asc"]

\* The updater passed to setSortState.
handleSortUpdater(prev, column) ==
  IF prev = NoSort \/ prev.key # column.key
    THEN [key |-> column.key, direction |-> "asc"]
  ELSE IF prev.direction = "asc"
    THEN [key |-> column.key, direction |-> "desc"]
  ELSE NoSort

\* Variant of handleSort with its header: the sortable test is absent.
handleSortState_NoGuard(prev, column) ==
  handleSortUpdater(prev, column)

\* handleSort as the header calls it: nothing happens for a column that is
\* not sortable.
handleSortState(prev, column) ==
  IF ~column.sortable THEN prev ELSE handleSortUpdater(prev, column)

\* ------------------------------------------------------- selection helpers
\* Variant of the filter: membership is tested on the position, whatever the
\* rowKey prop is.
RECURSIVE FilterSelected_ByPosition(_, _, _, _)
FilterSelected_ByPosition(view, rk, sel, index) ==
  IF index >= Len(view) THEN <<>>
  ELSE (IF NumToStr(index) \in sel THEN <<view[index + 1]>> ELSE <<>>)
       \o FilterSelected_ByPosition(view, rk, sel, index + 1)

\* Array.prototype.filter on the view, keeping view order.
RECURSIVE FilterSelected(_, _, _, _)
FilterSelected(view, rk, sel, index) ==
  IF index >= Len(view) THEN <<>>
  ELSE (IF getRowKey(rk, view[index + 1], index) \in sel
          THEN <<view[index + 1]>> ELSE <<>>)
       \o FilterSelected(view, rk, sel, index + 1)

\* Variant of allRowKeys: the positions, whatever the rowKey prop is.
allRowKeys_ByPosition(view, rk) ==
  { NumToStr(i - 1) : i \in DOMAIN view }

\* sortedData.map((record, index) => getRowKey(record, index))
allRowKeys(view, rk) ==
  { getRowKey(rk, view[i], i - 1) : i \in DOMAIN view }

\* Variant of newSelectedRows: checking a row replaces the selection.
newSelectedRows_Single(sel, key, checked) ==
  IF checked THEN {key} ELSE sel \ {key}

\* The set newSelectedRows built by handleRowSelect.
newSelectedRows(sel, key, checked) ==
  IF checked THEN sel \cup {key} ELSE sel \ {key}

\* The calls handleRowSelect makes to the caller's callback.
rowSelectCalls(cb, view, rk, newSel) ==
  IF cb THEN << FilterSelected(view, rk, newSel, 0) >> ELSE <<>>

\* The calls handleSelectAll makes to the caller's callback.
selectAllCalls(cb, view, checked) ==
  IF ~cb THEN <<>> ELSE IF checked THEN <<view>> ELSE << <<>> >>

\* Variant of handleSelectAll: unchecking leaves the rows of the view
\* selected.
selectAllRows_NoClear(view, rk, checked) ==
  allRowKeys(view, rk)

\* Variant of handleSelectAll: the map passes a 1-based index to getRowKey.
selectAllRows_OneBased(view, rk, checked) ==
  IF checked THEN { getRowKey(rk, view[i], i) : i \in DOMAIN view } ELSE {}

\* The selection set after handleSelectAll.
selectAllRows(view, rk, checked) ==
  IF checked THEN allRowKeys(view, rk) ELSE {}

\* -------------------------------------------------------------- pagination
\* The pagination prop: absent, or a descriptor of the caller.
NoPagination == [current |-> 0, pageSize |-> 0, total |-> 0]

\* The descriptor of the boundary scenario with one page of ten.
ScenarioDescriptor == [current |-> 1, pageSize |-> 10, total |-> 10]

Descriptors ==
  [current : 1..MaxPage, pageSize : 1..MaxPageSize, total : 0..MaxTotal]
    \cup {ScenarioDescriptor}

\* The descriptors of a caller that pages two records one at a time.
GridDescriptors ==
  { p \in Descriptors : p.pageSize = 1 /\ p.total = 2 /\ p.current <= 2 }

\* Variant of the page count: Math.floor(a / b) + 1.
MathCeilDiv_FloorPlusOne(a, b) == (a \div b) + 1

\* Math.ceil(a / b) for a >= 0, b > 0.
MathCeilDiv(a, b) == IF a % b = 0 THEN a \div b ELSE (a \div b) + 1

MathMin(a, b) == IF a < b THEN a ELSE b

\* The numbers of "Showing F to L of T entries" and "Page P of N".
paginationInfo(p) ==
  [first |-> ((p.current - 1) * p.pageSize) + 1,
   last |-> MathMin(p.current * p.pageSize, p.total),
   total |-> p.total,
   page |-> p.current,
   pages |-> MathCeilDiv(p.total, p.pageSize)]

\* Variant of the Previous button: disabled only below page 1.
prevDisabled_BelowOne(p) == p.current < 1

\* disabled of the Previous button.
prevDisabled(p) == p.current = 1

\* Variant of the Next button: disabled only beyond the last page.
nextDisabled_Beyond(p) == p.current > MathCeilDiv(p.total, p.pageSize)

\* disabled of the Next button.
nextDisabled(p) == p.current >= MathCeilDiv(p.total, p.pageSize)

\* ------------------------------------------------------------------ render
\* The emptyText prop: absent, or a text of the caller.
NoEmptyText == [given |-> FALSE, text |-> ""]
EmptyTexts == {NoEmptyText, [given |-> TRUE, text |-> "No records found"]}

\* The default of the emptyText parameter.
emptyTextOrDefault(prop) ==
  IF prop.given THEN prop.text ELSE "No data available"

\* Variant of the early returns: the empty collection is tested before
\* loading.
Render_EmptyFirst(ld, d, et) ==
  IF Len(d) = 0 THEN [kind |-> "empty", text |-> emptyTextOrDefault(et)]
  ELSE IF ld THEN [kind |-> "loading", text |-> "Loading..."]
  ELSE [kind |-> "grid", text |-> ""]

\* What the component returns: the loading indicator, the empty-state
\* message, or the grid.
Render(ld, d, et) ==
  IF ld THEN [kind |-> "loading", text |-> "Loading..."]
  ELSE IF Len(d) = 0 THEN [kind |-> "empty", text |-> emptyTextOrDefault(et)]
  ELSE [kind |-> "grid", text |-> ""]

\* The grid (headers, rows, checkboxes, pagination controls) is rendered
\* only when not loading and for a non-empty collection.
GridShown == Render(loading, data, emptyText).kind = "grid"

\* The records of the tbody rows: sortedData.map renders every record of the
\* view, whatever the pagination prop is.
displayedRows(view, p) == view

\* Variant of renderCell: String(value) without the null test.
renderCell_NoNullTest(column, record, index) ==
  LET value == Field(record, column.dataIndex)
  IN  IF column.render # ""
        THEN [kind |-> "node", text |-> <<>>,
              call |-> << [fn |-> column.render, value |-> value,
                           record |-> record, index |-> index] >>]
      ELSE [kind |-> "text", text |-> String(value), call |-> <<>>]

\* renderCell: the content of a cell is the result of the column's
\* formatter, kept as the call that produces it, or a text.
renderCell(column, record, index) ==
  LET value == Field(record, column.dataIndex)
  IN  IF column.render # ""
        THEN [kind |-> "node", text |-> <<>>,
              call |-> << [fn |-> column.render, value |-> value,
                           record |-> record, index |-> index] >>]
      ELSE [kind |-> "text",
            text |-> IF ~IsNullish(value) THEN String(value) ELSE <<>>,
            call |-> <<>>]

\* The content of the cell of column c in the row at 0-based position index.
cellContent(c, index) ==
  renderCell(Columns[c], displayedRows(sortedData, pagination)[index + 1],
             index)

\* isSelected of the row at 0-based position index.
isSelected(index) ==
  getRowKey(rowKey, sortedData[index + 1], index) \in selectedRows

\* getSortIcon(column): "" for no icon, "both" for the two-way arrow, else
\* the direction of the active sort.
getSortIcon(column, ss) ==
  IF ~column.sortable THEN ""
  ELSE IF ss = NoSort \/ ss.key # column.key THEN "both"
  ELSE IF ss.direction = "asc" THEN "asc" ELSE "desc"

\* The last event handled: the operation, its arguments (the column key of a
\* header click; the row position, identity and checked flag of a checkbox
\* click), the selection set the handler closed over, and the calls it made
\* to the caller's onRowSelect (calls) and pagination.onChange (onChange).
NoEvent ==
  [op |-> "init", column |-> "", index |-> -1, rowKey |-> <<>>,
   checked |-> FALSE, before |-> {}, calls |-> <<>>, onChange |-> <<>>]

\* The argument of the most recent callback call.
Reported(calls, prev) == IF calls = <<>> THEN prev ELSE <<calls[Len(calls)]>>

\* -------------------------------------------------------------- InputField
\* The texts typed or supplied: character sequences, '' being <<>>.
Texts == UNION { [1..k -> {"a", "b"}] : k \in 0..MaxTextLen }

\* The type attribute the caller passes among the other props, "" when it
\* passes none.
TypeProps == {"", "password"}

\* An InputField: the props value, onChange (registered or not), disabled,
\* clearable, passwordToggle and type (one of ...props); the hooks
\* inputValue, showPassword and isFocused; and the last handler run (op)
\* with the target.value of each onChange call it made (calls).
InputFields ==
  [value : Texts, onChange : BOOLEAN, disabled : BOOLEAN,
   clearable : BOOLEAN, passwordToggle : BOOLEAN, type : TypeProps,
   inputValue : Texts, showPassword : BOOLEAN, isFocused : BOOLEAN,
   op : {"init", "change", "clear", "toggle", "focus", "blur", "setValue"},
   calls : {<<>>} \cup { <<t>> : t \in Texts }]

\* The hooks after the first render with the given props.
FirstRender(value, onChange, disabled, clearable, passwordToggle, type) ==
  [value |-> value, onChange |-> onChange, disabled |-> disabled,
   clearable |-> clearable, passwordToggle |-> passwordToggle,
   type |-> type,
   inputValue |-> value, showPassword |-> FALSE, isFocused |-> FALSE,
   op |-> "init", calls |-> <<>>]

\* The InputField of a page that only shows a grid.
NoInputField == FirstRender(<<>>, FALSE, FALSE, FALSE, FALSE, "")

\* onChange?.(e): the call made when the callback is registered.
onChangeCalls(f, targetValue) ==
  IF f.onChange THEN <<targetValue>> ELSE <<>>

\* const inputType = passwordToggle && !showPassword ? 'password' : 'text'
inputType(f) ==
  IF f.passwordToggle /\ ~f.showPassword THEN "password" ELSE "text"

\* The type attribute of the input element: type={inputType} comes first
\* and {...props} is spread after it.
inputAttrType(f) == IF f.type # "" THEN f.type ELSE inputType(f)

\* The text the input element shows: value={inputValue}.
shownText(f) == f.inputValue

\* clearable && inputValue && !disabled
clearOffered(f) == f.clearable /\ f.inputValue # <<>> /\ ~f.disabled

\* aria-label of the password toggle.
toggleLabel(f) ==
  IF f.showPassword THEN "Hide password" ELSE "Show password"

\* -------------------------------------------------------------------- Init
Init ==
  /\ data \in Collections
  /\ sortedData = sortedDataMemo(data, NoSort).sortedData
  /\ sortState = NoSort
  /\ selectedRows = {}
  /\ selectAll = FALSE
  /\ rowKey \in RowKeys
  /\ selectable \in BOOLEAN
  /\ onRowSelect \in BOOLEAN
  /\ event = NoEvent
  /\ reported = <<>>
  /\ pagination = NoPagination
  /\ loading = FALSE
  /\ emptyText = NoEmptyText
  /\ inputField = NoInputField

\* ----------------------------------------------------------------- actions
\* Variant of the header click: the sort also empties the selection.
HeaderClick_ClearsSelection(c) ==
  /\ GridShown
  /\ LET column == Columns[c]
         next == handleSortState(sortState, column)
         memo == sortedDataMemo(data, next)
     IN  /\ sortState' = next
         /\ data' = memo.data
         /\ sortedData' = memo.sortedData
         /\ event' = [NoEvent EXCEPT !.op = "sort", !.column = column.key,
                                     !.before = selectedRows]
  /\ selectedRows' = {}
  /\ selectAll' = FALSE
  /\ UNCHANGED <<rowKey, selectable, onRowSelect, reported, props, inputField>>

\* A click on a column header: handleSort(column), then the re-render that
\* recomputes sortedData.
HeaderClick(c) ==
  /\ GridShown
  /\ LET column == Columns[c]
         next == handleSortState(sortState, column)
         memo == sortedDataMemo(data, next)
     IN  /\ sortState' = next
         /\ data' = memo.data
         /\ sortedData' = memo.sortedData
         /\ event' = [NoEvent EXCEPT !.op = "sort", !.column = column.key,
                                     !.before = selectedRows]
  /\ UNCHANGED <<selectedRows, selectAll, rowKey, selectable, onRowSelect,
                 reported, props, inputField>>

\* Variant of the checkbox click: the all-selected flag is set when every
\* row of the view has its identity in the updated set.
RowCheckboxClick_FlagByRows(index) ==
  /\ GridShown
  /\ selectable
  /\ index \in 0..(Len(sortedData) - 1)
  /\ LET key == getRowKey(rowKey, sortedData[index + 1], index)
         checked == ~isSelected(index)
         newSel == newSelectedRows(selectedRows, key, checked)
         calls == rowSelectCalls(onRowSelect, sortedData, rowKey, newSel)
     IN  /\ selectedRows' = newSel
         /\ selectAll' = (allRowKeys(sortedData, rowKey) \subseteq newSel)
         /\ event' = [NoEvent EXCEPT !.op = "toggleRow", !.index = index,
                                     !.rowKey = key, !.checked = checked,
                                     !.before = selectedRows,
                                     !.calls = calls]
         /\ reported' = Reported(calls, reported)
  /\ UNCHANGED <<data, sortedData, sortState, rowKey, selectable, onRowSelect,
                 props, inputField>>

\* A click on the checkbox of the row at position index:
\* handleRowSelect(rowKey, e.target.checked).
RowCheckboxClick(index) ==
  /\ GridShown
  /\ selectable
  /\ index \in 0..(Len(sortedData) - 1)
  /\ LET key == getRowKey(rowKey, sortedData[index + 1], index)
         checked == ~isSelected(index)
         newSel == newSelectedRows(selectedRows, key, checked)
         calls == rowSelectCalls(onRowSelect, sortedData, rowKey, newSel)
     IN  /\ selectedRows' = newSel
         /\ selectAll' = (Cardinality(newSel) = Len(sortedData))
         /\ event' = [NoEvent EXCEPT !.op = "toggleRow", !.index = index,
                                     !.rowKey = key, !.checked = checked,
                                     !.before = selectedRows,
                                     !.calls = calls]
         /\ reported' = Reported(calls, reported)
  /\ UNCHANGED <<data, sortedData, sortState, rowKey, selectable, onRowSelect,
                 props, inputField>>

\* The identities handed to handleRowSelect when it is called on its own:
\* the positions, the ids of the records, and one that no record has.
Identities ==
  { NumToStr(i) : i \in 0..(MaxLen - 1) }
    \cup { String(r.id) : r \in GridRecords }
    \cup { <<"9">> }

\* handleRowSelect(rowKey, checked) called with any identity, whether a row
\* of the view has it or not.
handleRowSelect(key, checked) ==
  /\ GridShown
  /\ selectable
  /\ LET newSel == newSelectedRows(selectedRows, key, checked)
         calls == rowSelectCalls(onRowSelect, sortedData, rowKey, newSel)
     IN  /\ selectedRows' = newSel
         /\ selectAll' = (Cardinality(newSel) = Len(sortedData))
         /\ event' = [NoEvent EXCEPT !.op = "toggleRow",
                                     !.rowKey = key, !.checked = checked,
                                     !.before = selectedRows,
                                     !.calls = calls]
         /\ reported' = Reported(calls, reported)
  /\ UNCHANGED <<data, sortedData, sortState, rowKey, selectable, onRowSelect,
                 props, inputField>>

\* A click on the select-all checkbox: handleSelectAll(e.target.checked).
SelectAllClick ==
  /\ GridShown
  /\ selectable
  /\ LET checked == ~selectAll
         calls == selectAllCalls(onRowSelect, sortedData, checked)
     IN  /\ selectedRows' = selectAllRows(sortedData, rowKey, checked)
         /\ selectAll' = checked
         /\ event' = [NoEvent EXCEPT !.op = "toggleAll", !.checked = checked,
                                     !.before = selectedRows,
                                     !.calls = calls]
         /\ reported' = Reported(calls, reported)
  /\ UNCHANGED <<data, sortedData, sortState, rowKey, selectable, onRowSelect,
                 props, inputField>>

\* Variant of the re-render with another collection: an effect drops the
\* identities that no record of the new view has.
ReplaceData_Purge(d) ==
  /\ d # data
  /\ LET memo == sortedDataMemo(d, sortState)
     IN  /\ data' = memo.data
         /\ sortedData' = memo.sortedData
         /\ selectedRows' = selectedRows \cap allRowKeys(memo.sortedData, rowKey)
  /\ event' = [NoEvent EXCEPT !.op = "setData", !.before = selectedRows]
  /\ UNCHANGED <<sortState, selectAll, rowKey, selectable, onRowSelect,
                 reported, props, inputField>>

\* The caller re-renders the component with another record collection.
ReplaceData(d) ==
  /\ d # data
  /\ LET memo == sortedDataMemo(d, sortState)
     IN  /\ data' = memo.data
         /\ sortedData' = memo.sortedData
  /\ event' = [NoEvent EXCEPT !.op = "setData", !.before = selectedRows]
  /\ UNCHANGED <<sortState, selectedRows, selectAll, rowKey, selectable,
                 onRowSelect, reported, props, inputField>>

\* The component's own state and the props the page controls do not touch.
grid == <<data, sortedData, sortState, selectedRows, selectAll, rowKey,
          selectable, onRowSelect, reported>>

\* A click on the Previous button, which a disabled button does not take.
PrevClick ==
  /\ GridShown
  /\ pagination # NoPagination
  /\ ~prevDisabled(pagination)
  /\ event' = [NoEvent EXCEPT
                 !.op = "prev", !.before = selectedRows,
                 !.onChange = << <<pagination.current - 1,
                                   pagination.pageSize>> >>]
  /\ UNCHANGED <<grid, props, inputField>>

\* Variant of the Next button: the component keeps the page itself.
NextClick_OwnsPage ==
  /\ GridShown
  /\ pagination # NoPagination
  /\ ~nextDisabled(pagination)
  /\ pagination' = [pagination EXCEPT !.current = pagination.current + 1]
  /\ event' = [NoEvent EXCEPT
                 !.op = "next", !.before = selectedRows,
                 !.onChange = << <<pagination.current + 1,
                                   pagination.pageSize>> >>]
  /\ UNCHANGED <<grid, loading, emptyText, inputField>>

\* A click on the Next button, which a disabled button does not take.
NextClick ==
  /\ GridShown
  /\ pagination # NoPagination
  /\ ~nextDisabled(pagination)
  /\ event' = [NoEvent EXCEPT
                 !.op = "next", !.before = selectedRows,
                 !.onChange = << <<pagination.current + 1,
                                   pagination.pageSize>> >>]
  /\ UNCHANGED <<grid, props, inputField>>

\* The caller re-renders the component with another pagination prop.
SetPagination(p) ==
  /\ p # pagination
  /\ pagination' = p
  /\ event' = [NoEvent EXCEPT !.op = "setPagination", !.before = selectedRows]
  /\ UNCHANGED <<grid, loading, emptyText, inputField>>

\* The caller re-renders the component with the loading prop flipped.
SetLoading ==
  /\ loading' = ~loading
  /\ event' = [NoEvent EXCEPT !.op = "setLoading", !.before = selectedRows]
  /\ UNCHANGED <<grid, pagination, emptyText, inputField>>

Next ==
  \/ \E c \in DOMAIN Columns : HeaderClick(c)
  \/ \E index \in 0..(MaxLen - 1) : RowCheckboxClick(index)
  \/ SelectAllClick
  \/ \E d \in Collections : ReplaceData(d)

Spec == Init /\ [][Next]_vars

\* The sort on its own: a grid without selection whose caller supplies any
\* collection of Records, nulls included, and whose headers are clicked.
SortInit ==
  /\ data \in SortCollections
  /\ sortedData = sortedDataMemo(data, NoSort).sortedData
  /\ sortState = NoSort
  /\ selectedRows = {}
  /\ selectAll = FALSE
  /\ rowKey = NoRowKey
  /\ selectable = FALSE
  /\ onRowSelect = FALSE
  /\ event = NoEvent
  /\ reported = <<>>
  /\ pagination = NoPagination
  /\ loading = FALSE
  /\ emptyText = NoEmptyText
  /\ inputField = NoInputField

SortNext ==
  \/ \E c \in DOMAIN Columns : HeaderClick(c)
  \/ \E d \in SortCollections : ReplaceData(d)

SortSpec == SortInit /\ [][SortNext]_vars

\* The pagination controls on their own: a displayed grid of one record
\* whose caller supplies any descriptor and whose buttons are clicked.
PageInit ==
  /\ data \in { d \in Collections : Len(d) = 1 }
  /\ sortedData = sortedDataMemo(data, NoSort).sortedData
  /\ sortState = NoSort
  /\ selectedRows = {}
  /\ selectAll = FALSE
  /\ rowKey = NoRowKey
  /\ selectable = FALSE
  /\ onRowSelect = FALSE
  /\ event = NoEvent
  /\ reported = <<>>
  /\ pagination \in Descriptors
  /\ loading = FALSE
  /\ emptyText = NoEmptyText
  /\ inputField = NoInputField

PageNext ==
  \/ PrevClick
  \/ NextClick
  \/ \E p \in Descriptors : SetPagination(p)

PageSpec == PageInit /\ [][PageNext]_vars

\* The grid with all its props: a selectable grid with a callback and
\* position identities, whose caller pages one record at a time, flips
\* loading and replaces the collection.
PropsInit ==
  /\ data \in Collections
  /\ sortedData = sortedDataMemo(data, NoSort).sortedData
  /\ sortState = NoSort
  /\ selectedRows = {}
  /\ selectAll = FALSE
  /\ rowKey = NoRowKey
  /\ selectable = TRUE
  /\ onRowSelect = TRUE
  /\ event = NoEvent
  /\ reported = <<>>
  /\ pagination \in GridDescriptors
  /\ loading \in BOOLEAN
  /\ emptyText \in EmptyTexts
  /\ inputField = NoInputField

PropsNext ==
  \/ \E c \in DOMAIN Columns : HeaderClick(c)
  \/ \E index \in 0..(MaxLen - 1) : RowCheckboxClick(index)
  \/ SelectAllClick
  \/ \E d \in Collections : ReplaceData(d)
  \/ PrevClick
  \/ NextClick
  \/ \E p \in GridDescriptors : SetPagination(p)
  \/ SetLoading

PropsSpec == PropsInit /\ [][PropsNext]_vars

\* The comparator on its own: a grid of two records, of any two types,
\* whose headers are clicked and whose caller supplies any other pair.
CompareInit ==
  /\ data \in PairCollections
  /\ sortedData = sortedDataMemo(data, NoSort).sortedData
  /\ sortState = NoSort
  /\ selectedRows = {}
  /\ selectAll = FALSE
  /\ rowKey = NoRowKey
  /\ selectable = FALSE
  /\ onRowSelect = FALSE
  /\ event = NoEvent
  /\ reported = <<>>
  /\ pagination = NoPagination
  /\ loading = FALSE
  /\ emptyText = NoEmptyText
  /\ inputField = NoInputField

CompareNext ==
  \/ \E c \in DOMAIN Columns : HeaderClick(c)
  \/ \E d \in PairCollections : ReplaceData(d)

CompareSpec == CompareInit /\ [][CompareNext]_vars

\* The selection handlers on their own: a selectable grid with a callback,
\* whose handleRowSelect is called with any identity.
HandlerInit ==
  /\ data \in Collections
  /\ sortedData = sortedDataMemo(data, NoSort).sortedData
  /\ sortState = NoSort
  /\ selectedRows = {}
  /\ selectAll = FALSE
  /\ rowKey \in {NoRowKey, "id"}
  /\ selectable = TRUE
  /\ onRowSelect = TRUE
  /\ event = NoEvent
  /\ reported = <<>>
  /\ pagination = NoPagination
  /\ loading = FALSE
  /\ emptyText = NoEmptyText
  /\ inputField = NoInputField

HandlerNext ==
  \/ \E key \in Identities : \E checked \in BOOLEAN :
       handleRowSelect(key, checked)
  \/ SelectAllClick

HandlerSpec == HandlerInit /\ [][HandlerNext]_vars

\* The DataTable state, which the InputField's handlers do not touch.
table == <<data, sortedData, sortState, selectedRows, selectAll, rowKey,
           selectable, onRowSelect, event, reported, pagination, loading,
           emptyText>>

\* The user edits the text of the input: handleChange(e) with
\* e.target.value = text.  A disabled input takes no edit.
InputChange(text) ==
  /\ ~inputField.disabled
  /\ text # inputField.inputValue
  /\ inputField' = [inputField EXCEPT
                      !.inputValue = text,
                      !.op = "change",
                      !.calls = onChangeCalls(inputField, text)]
  /\ UNCHANGED table

\* Variant of handleClear: the text is emptied without telling the caller.
ClearClick_Silent ==
  /\ clearOffered(inputField)
  /\ inputField' = [inputField EXCEPT
                      !.inputValue = <<>>,
                      !.op = "clear",
                      !.calls = <<>>]
  /\ UNCHANGED table

\* A click on the clear button, which is there when offered: handleClear().
ClearClick ==
  /\ clearOffered(inputField)
  /\ inputField' = [inputField EXCEPT
                      !.inputValue = <<>>,
                      !.op = "clear",
                      !.calls = onChangeCalls(inputField, <<>>)]
  /\ UNCHANGED table

\* A click on the password toggle, rendered when passwordToggle is set:
\* togglePasswordVisibility().
TogglePasswordClick ==
  /\ inputField.passwordToggle
  /\ inputField' = [inputField EXCEPT
                      !.showPassword = ~inputField.showPassword,
                      !.op = "toggle",
                      !.calls = <<>>]
  /\ UNCHANGED table

\* onFocus of the input.
InputFocus ==
  /\ ~inputField.disabled
  /\ ~inputField.isFocused
  /\ inputField' = [inputField EXCEPT
                      !.isFocused = TRUE, !.op = "focus", !.calls = <<>>]
  /\ UNCHANGED table

\* onBlur of the input.
InputBlur ==
  /\ inputField.isFocused
  /\ inputField' = [inputField EXCEPT
                      !.isFocused = FALSE, !.op = "blur", !.calls = <<>>]
  /\ UNCHANGED table

\* The caller re-renders the field with another value prop: useState(value)
\* reads value on the first render only.
SetValue(v) ==
  /\ v # inputField.value
  /\ inputField' = [inputField EXCEPT
                      !.value = v, !.op = "setValue", !.calls = <<>>]
  /\ UNCHANGED table

\* An InputField on its own, beside an empty grid.
InputInit ==
  /\ data = <<>>
  /\ sortedData = sortedDataMemo(data, NoSort).sortedData
  /\ sortState = NoSort
  /\ selectedRows = {}
  /\ selectAll = FALSE
  /\ rowKey = NoRowKey
  /\ selectable = FALSE
  /\ onRowSelect = FALSE
  /\ event = NoEvent
  /\ reported = <<>>
  /\ pagination = NoPagination
  /\ loading = FALSE
  /\ emptyText = NoEmptyText
  /\ \E value \in Texts, type \in TypeProps :
     \E onChange, disabled, clearable, passwordToggle \in BOOLEAN :
       inputField = FirstRender(value, onChange, disabled, clearable,
                                passwordToggle, type)

InputNext ==
  \/ \E text \in Texts : InputChange(text)
  \/ ClearClick
  \/ TogglePasswordClick
  \/ InputFocus
  \/ InputBlur
  \/ \E v \in Texts : SetValue(v)

InputSpec == InputInit /\ [][InputNext]_vars

\* ------------------------------------------------------- property helpers
ColumnOf(key) ==
  Columns[CHOOSE c \in DOMAIN Columns : Columns[c].key = key]

Asc(key) == [key |-> key, direction |-> "asc"]
Desc(key) == [key |-> key, direction |-> "desc"]

\* Number of occurrences of record r in sequence q.
Count(q, r) == Cardinality({ i \in DOMAIN q : q[i] = r })

IsPermutation(p, q) ==
  /\ Len(p) = Len(q)
  /\ \A i \in DOMAIN q : Count(p, q[i]) = Count(q, q[i])

\* The ids of the records of a sequence, in order.
Ids(q) == [i \in DOMAIN q |-> q[i].id.n]

\* The collection of the end-to-end scenario.
ScenarioData ==
  << [id |-> Num(2), name |-> Str(<<"b">>)],
     [id |-> Num(1), name |-> Str(<<"a">>)],
     [id |-> Num(3), name |-> Null] >>

\* ----------------------------------------------------------------- claims
\* C1: the sort state starts at none; a click on a sortable column K moves
\* none -> (K, asc) -> (K, desc) -> none, a click on another sortable column
\* K2 gives (K2, asc) whatever the direction was; the sort state is always
\* none or one key with one direction; and the click that returns the state
\* to none returns the displayed order to the input order.
C1_SortCycle ==
  /\ sortState = NoSort
  /\ [](sortState \in SortStates)
  /\ [][ (event'.op = "sort" /\ ColumnOf(event'.column).sortable) =>
           LET K == event'.column
           IN  /\ sortState = NoSort => sortState' = Asc(K)
               /\ sortState = Asc(K) => sortState' = Desc(K)
               /\ sortState = Desc(K) =>
                     (sortState' = NoSort /\ sortedData' = data')
               /\ (sortState # NoSort /\ sortState.key # K) =>
                     sortState' = Asc(K) ]_vars

\* C1 witness: the third click on a column has returned the sort state to
\* none, with a collection that the sort had reordered.
C1_Witness ==
  /\ event.op = "sort"
  /\ ColumnOf(event.column).sortable
  /\ sortState = NoSort
  /\ sortedData = data
  /\ ArraySort(data, Desc(event.column)) # data

\* C2: under an active sort on key K, no record whose K value is null or
\* undefined precedes a record whose K value is defined, in either
\* direction; the scenario collection gives ids 1,2,3 under name ascending
\* and 2,1,3 under name descending.
C2_NullsLast ==
  /\ sortState # NoSort =>
       \A i, j \in DOMAIN sortedData :
         (i < j /\ IsNullish(Field(sortedData[i], sortState.key)))
           => IsNullish(Field(sortedData[j], sortState.key))
  /\ (data = ScenarioData /\ sortState = Asc("name"))
       => Ids(sortedData) = <<1, 2, 3>>
  /\ (data = ScenarioData /\ sortState = Desc("name"))
       => Ids(sortedData) = <<2, 1, 3>>

\* C2 witness: the scenario collection sorted by name descending.
C2_Witness ==
  /\ data = ScenarioData
  /\ sortState = Desc("name")
  /\ event.op = "sort"
  /\ Ids(sortedData) = <<2, 1, 3>>

\* C3: a sort click leaves the caller's collection as supplied; with no sort
\* the view is the input order; with a sort the view is a permutation of the
\* input.
C3_CopyOnSort ==
  /\ [][event'.op = "sort" => data' = data]_vars
  /\ [](sortState = NoSort => sortedData = data)
  /\ [](IsPermutation(sortedData, data))

\* C3 witness: a header click has produced a view in another order than the
\* caller's collection.
C3_Witness ==
  /\ event.op = "sort"
  /\ sortState # NoSort
  /\ sortedData # data
  /\ Len(data) = MaxSortLen

\* The positions (1-based) of the rows of the view whose identity is in sel.
SelectedPositions(view, rk, sel) ==
  { i \in DOMAIN view : getRowKey(rk, view[i], i - 1) \in sel }

\* list holds the rows of the view whose identity is in sel, in view order.
IsViewSelection(list, view, rk, sel) ==
  \E f \in [DOMAIN list -> SelectedPositions(view, rk, sel)] :
    /\ \A k, l \in DOMAIN list : k < l => f[k] < f[l]
    /\ \A i \in SelectedPositions(view, rk, sel) :
         \E k \in DOMAIN list : f[k] = i
    /\ \A k \in DOMAIN list : list[k] = view[f[k]]

\* The identities of the rows of the displayed view.
ViewIdentities ==
  { getRowKey(rowKey, sortedData[i], i - 1) : i \in DOMAIN sortedData }

\* The records displayed as selected.
DisplayedSelected ==
  { sortedData[i] : i \in { j \in DOMAIN sortedData : isSelected(j - 1) } }

Range(q) == { q[i] : i \in DOMAIN q }

\* C4: a row toggle with (i, checked) adds exactly i to the selection set
\* when checked and removes exactly i otherwise; every other identity keeps
\* its membership.  By induction the set after a run of row toggles is the
\* toggles applied in order.
C4_ToggleRowOne ==
  [][ event'.op = "toggleRow" =>
        LET i == event'.rowKey
        IN  /\ event'.checked => selectedRows' = selectedRows \cup {i}
            /\ ~event'.checked => selectedRows' = selectedRows \ {i}
            /\ \A k \in (selectedRows \cup selectedRows') \ {i} :
                 (k \in selectedRows) <=> (k \in selectedRows') ]_vars

\* C4 witness: a second row has been toggled on while another identity was
\* selected and stays selected.
C4_Witness ==
  /\ event.op = "toggleRow"
  /\ event.checked
  /\ event.before # {}
  /\ selectedRows = event.before \cup {event.rowKey}
  /\ Cardinality(selectedRows) = 2

\* The part of C5 that does not depend on the grid being fresh: with a
\* callback registered a row toggle calls it exactly once, with the rows of
\* the view whose identity is in the updated set, in view order, and these
\* are the rows then displayed as selected.
C5_Report ==
  (event'.op = "toggleRow" /\ onRowSelect) =>
    /\ Len(event'.calls) = 1
    /\ IsViewSelection(event'.calls[1], sortedData', rowKey', selectedRows')
    /\ Range(event'.calls[1]) = DisplayedSelected'

\* C5 as stated: ... and on a fresh grid toggling one row on reports a list
\* of length 1 holding that row's record.
C5_Orig ==
  [][ /\ C5_Report
      /\ (event.op = "init" /\ event'.op = "toggleRow" /\ onRowSelect) =>
            event'.calls[1] = << sortedData[event'.index + 1] >> ]_vars

\* C5 amended: ... and on a fresh grid toggling one row on reports the rows
\* of the view that have that row's identity, which is a list of length 1
\* holding that row's record when no other row has the same identity (always
\* so without a rowKey prop).
C5_ToggleRowReport ==
  [][ /\ C5_Report
      /\ (event.op = "init" /\ event'.op = "toggleRow" /\ onRowSelect) =>
            /\ IsViewSelection(event'.calls[1], sortedData, rowKey,
                               {event'.rowKey})
            /\ (SelectedPositions(sortedData, rowKey, {event'.rowKey})
                   = {event'.index + 1}
                 \/ rowKey = NoRowKey)
                => event'.calls[1] = << sortedData[event'.index + 1] >> ]_vars

\* C5 witness: with a sort active, the second row toggled on precedes the
\* first one in the view, and the callback got both in view order.
C5_Witness ==
  /\ event.op = "toggleRow"
  /\ onRowSelect
  /\ event.checked
  /\ sortState # NoSort
  /\ sortedData # data
  /\ event.index = 0
  /\ event.before # {}
  /\ Len(event.calls) = 1
  /\ event.calls[1] = sortedData
  /\ Len(sortedData) = 2

\* C6: right after toggleAll(true) the selection set is exactly the
\* identities of the rows of the view (every row is selected, no identity
\* outside the view is), the all-selected flag is true and the callback, when
\* registered, was called once with the whole view in view order.
C6_SelectAllOn ==
  (event.op = "toggleAll" /\ event.checked) =>
    /\ selectedRows = ViewIdentities
    /\ \A i \in DOMAIN sortedData : isSelected(i - 1)
    /\ \A k \in event.before : k \notin ViewIdentities => k \notin selectedRows
    /\ selectAll
    /\ event.calls = IF onRowSelect THEN << sortedData >> ELSE <<>>

\* C6 witness: toggleAll(true) has dropped a stale identity and reported a
\* sorted view that is not in input order.
C6_Witness ==
  /\ event.op = "toggleAll"
  /\ event.checked
  /\ onRowSelect
  /\ \E k \in event.before : k \notin selectedRows
  /\ sortedData # data
  /\ event.calls = << sortedData >>

\* C7: right after toggleAll(false) the selection set is empty, the
\* all-selected flag is false and the callback, when registered, was called
\* once with the empty sequence.
C7_SelectAllOff ==
  (event.op = "toggleAll" /\ ~event.checked) =>
    /\ selectedRows = {}
    /\ ~selectAll
    /\ event.calls = IF onRowSelect THEN << <<>> >> ELSE <<>>

\* C7 witness: toggleAll(false) has emptied a selection that held every row
\* of the view.
C7_Witness ==
  /\ event.op = "toggleAll"
  /\ ~event.checked
  /\ onRowSelect
  /\ event.before = ViewIdentities
  /\ event.before # {}
  /\ selectedRows = {}

\* C8 as stated: in every reachable state the selection set is a subset of
\* the identities of the rows of the current sorted view.
C8_Orig == selectedRows \subseteq ViewIdentities

\* C8 amended: the selection set starts as a subset of the identities of the
\* current view, and every row toggle, select-all toggle and sort click
\* keeps it one; only a replacement of the record collection can leave
\* identities in the set that no row of the view has.
C8_SubsetKeptByHandlers ==
  /\ selectedRows \subseteq ViewIdentities
  /\ [][ (event'.op # "setData" /\ selectedRows \subseteq ViewIdentities)
           => (selectedRows \subseteq ViewIdentities)' ]_vars

\* C8 witness: after a sort click that reordered the view, a selection of
\* some but not all rows is still within the identities of the view.
C8_Witness ==
  /\ event.op = "sort"
  /\ sortedData # data
  /\ selectedRows # {}
  /\ selectedRows # ViewIdentities
  /\ selectedRows \subseteq ViewIdentities

\* C9 as stated: a replacement of the collection never changes the selection
\* set, and an identity of the set that no row of the view has leaves the
\* set only by toggleAll(false).
C9_Orig ==
  /\ [][event'.op = "setData" => selectedRows' = selectedRows]_vars
  /\ [][ \A k \in selectedRows :
           (k \notin ViewIdentities /\ k \notin selectedRows')
             => (event'.op = "toggleAll" /\ ~event'.checked) ]_vars

\* C9 amended: a replacement of the collection never changes the selection
\* set, and an identity of the set that no row of the view has leaves the
\* set only by a select-all toggle, toggleAll(false) or toggleAll(true).
C9_StaleKept ==
  /\ [][event'.op = "setData" => selectedRows' = selectedRows]_vars
  /\ [][ \A k \in selectedRows :
           (k \notin ViewIdentities /\ k \notin selectedRows')
             => event'.op = "toggleAll" ]_vars

\* C9 witness: a replacement of the collection has left a selected identity
\* that was in the view without any row.
C9_Witness ==
  /\ event.op = "setData"
  /\ selectedRows = event.before
  /\ \E k \in selectedRows : k \notin ViewIdentities

\* C10: without a rowKey prop a row is selected exactly when its position is
\* in the selection set, and a sort click or a replacement of the collection
\* changes neither the set nor what was reported, and calls no callback.
C10_PositionIdentity ==
  /\ [](rowKey = NoRowKey =>
          \A i \in DOMAIN sortedData :
            isSelected(i - 1) <=> NumToStr(i - 1) \in selectedRows)
  /\ [][ (rowKey = NoRowKey /\ event'.op \in {"sort", "setData"}) =>
           /\ selectedRows' = selectedRows
           /\ event'.calls = <<>>
           /\ reported' = reported ]_vars

\* C10 witness: without a rowKey prop, one row was selected and reported, and
\* after a sort click, with no callback call, the one row displayed as
\* selected is another record.
C10_Witness ==
  /\ rowKey = NoRowKey
  /\ onRowSelect
  /\ event.op = "sort"
  /\ event.calls = <<>>
  /\ selectedRows = event.before
  /\ Cardinality(selectedRows) = 1
  /\ Len(reported) = 1
  /\ Len(reported[1]) = 1
  /\ Cardinality(DisplayedSelected) = 1
  /\ DisplayedSelected # Range(reported[1])

\* The descriptor of the boundary scenario with a last page of one record.
LastPageDescriptor == [current |-> 3, pageSize |-> 2, total |-> 5]

\* C11: for a displayed descriptor, firstShownIndex is
\* (currentPage-1)*pageSize + 1, lastShownIndex is the smaller of
\* currentPage*pageSize and totalCount, and totalPages is the least number of
\* pages of pageSize that hold totalCount; (5, 2, page 3) gives 5, 5 and 3
\* pages, (10, 10, page 1) gives 1 page.
C11_PaginationInfo ==
  (GridShown /\ pagination # NoPagination) =>
    LET p == pagination
        info == paginationInfo(p)
    IN  /\ info.first = ((p.current - 1) * p.pageSize) + 1
        /\ info.last <= p.current * p.pageSize
        /\ info.last <= p.total
        /\ info.last \in {p.current * p.pageSize, p.total}
        /\ info.pages * p.pageSize >= p.total
        /\ (info.pages - 1) * p.pageSize < p.total \/ info.pages = 0
        /\ info.pages >= 0
        /\ p = LastPageDescriptor =>
             (info.first = 5 /\ info.last = 5 /\ info.pages = 3)
        /\ p = ScenarioDescriptor => info.pages = 1

\* C11 witness: the caller has supplied the descriptor of the last-page
\* scenario and the grid shows 5 to 5 of 3 pages.
C11_Witness ==
  /\ GridShown
  /\ event.op = "setPagination"
  /\ pagination = LastPageDescriptor
  /\ paginationInfo(pagination).first = 5
  /\ paginationInfo(pagination).last = 5
  /\ paginationInfo(pagination).pages = 3

\* C12: Previous is disabled exactly when currentPage is 1; it can be
\* clicked exactly when displayed and not disabled, and a click calls
\* onChange once with (currentPage - 1, pageSize).
C12_Previous ==
  /\ [](pagination # NoPagination =>
          (prevDisabled(pagination) <=> pagination.current = 1))
  /\ []((ENABLED PrevClick) <=>
          (GridShown /\ pagination # NoPagination /\ pagination.current # 1))
  /\ [][ event'.op = "prev" =>
           /\ pagination.current # 1
           /\ event'.onChange =
                << <<pagination.current - 1, pagination.pageSize>> >> ]_vars

\* C12 witness: Previous was clicked on page 2 and asked for page 1.
C12_Witness ==
  /\ event.op = "prev"
  /\ pagination.current = 2
  /\ event.onChange = << <<1, pagination.pageSize>> >>

\* C13: Next is disabled exactly when currentPage pages of pageSize hold
\* totalCount (currentPage >= ceil(totalCount / pageSize)); it can be clicked
\* exactly when displayed and not disabled, and a click calls onChange once
\* with (currentPage + 1, pageSize), a page that is not beyond the last.
C13_Next ==
  /\ [](pagination # NoPagination =>
          (nextDisabled(pagination)
             <=> pagination.current * pagination.pageSize >= pagination.total))
  /\ []((ENABLED NextClick) <=>
          (/\ GridShown
           /\ pagination # NoPagination
           /\ pagination.current * pagination.pageSize < pagination.total))
  /\ [][ event'.op = "next" =>
           /\ event'.onChange =
                << <<pagination.current + 1, pagination.pageSize>> >>
           /\ pagination.current * pagination.pageSize < pagination.total ]_vars

\* C13 witness: Next was clicked on page 2 of 3 and asked for the last page;
\* on that page Next is disabled.
C13_Witness ==
  /\ event.op = "next"
  /\ pagination = [current |-> 2, pageSize |-> 2, total |-> 5]
  /\ event.onChange = << <<3, 2>> >>
  /\ nextDisabled(LastPageDescriptor)

\* The operations that a control of the grid triggers.
ClickOps == {"sort", "toggleRow", "toggleAll", "prev", "next"}

\* C14: a click on Previous or Next changes neither the sort state, the
\* selection set, the all-selected flag, the view, the collection nor the
\* descriptor, and calls no selection callback; the descriptor changes only
\* when the caller supplies another one; the rows displayed are all the
\* supplied records, whatever the descriptor is.
C14_PageFrame ==
  /\ [][ event'.op \in {"prev", "next"} =>
           /\ UNCHANGED <<sortState, selectedRows, selectAll, sortedData,
                          data, pagination, reported>>
           /\ paginationInfo(pagination').page = paginationInfo(pagination).page
           /\ event'.calls = <<>> ]_vars
  /\ [][ pagination' # pagination => event'.op = "setPagination" ]_vars
  /\ [](GridShown => IsPermutation(displayedRows(sortedData, pagination), data))

\* C14 witness: Next was clicked on page 1 of a one-record page size while
\* two records, sorted and one of them selected, stayed displayed.
C14_Witness ==
  /\ event.op = "next"
  /\ pagination.current = 1
  /\ sortState # NoSort
  /\ sortedData # data
  /\ selectedRows # {}
  /\ selectedRows = event.before
  /\ Len(displayedRows(sortedData, pagination)) > pagination.pageSize

\* C15: while loading, the loading indicator is returned, also for an empty
\* collection; when not loading an empty collection returns the empty-state
\* message, the caller's text or 'No data available'; in both cases no
\* control of the grid can be clicked, and every click handled found the
\* grid displayed.
C15_Degenerate ==
  /\ loading => Render(loading, data, emptyText).kind = "loading"
  /\ (~loading /\ Len(data) = 0) =>
       /\ Render(loading, data, emptyText).kind = "empty"
       /\ Render(loading, data, emptyText).text =
            (IF emptyText.given THEN emptyText.text ELSE "No data available")
  /\ (loading \/ Len(data) = 0) =>
       /\ ~ENABLED (\E c \in DOMAIN Columns : HeaderClick(c))
       /\ ~ENABLED (\E index \in 0..(MaxLen - 1) : RowCheckboxClick(index))
       /\ ~ENABLED SelectAllClick
       /\ ~ENABLED PrevClick
       /\ ~ENABLED NextClick
  /\ event.op \in ClickOps => (~loading /\ Len(data) > 0)

\* C15 witness: the caller has set loading on an empty collection while a
\* row identity was still selected, and the loading indicator is returned.
C15_Witness ==
  /\ event.op = "setLoading"
  /\ loading
  /\ Len(data) = 0
  /\ selectedRows # {}
  /\ Render(loading, data, emptyText).kind = "loading"

\* The number that a sequence of decimal digits writes.
RECURSIVE DecimalValue(_)
DecimalValue(digits) ==
  IF digits = <<>> THEN 0
  ELSE 10 * DecimalValue(SubSeq(digits, 1, Len(digits) - 1))
         + (Rank(digits[Len(digits)]) - 1)

\* text is the string form of the defined value v.
IsStringOf(text, v) ==
  IF v.t = "string" THEN text = v.s
  ELSE /\ text # <<>>
       /\ \A k \in DOMAIN text : Rank(text[k]) <= 10
       /\ Len(text) > 1 => text[1] # "0"
       /\ DecimalValue(text) = v.n

\* C16: for every column and every row of the view, a column with a
\* formatter displays the result of calling it with (the record's value of
\* the column's dataIndex field, the record, the row's position in the view);
\* a column without one displays the value's string form, and the empty
\* string for null or undefined.
C16_CellContent ==
  GridShown =>
    \A c \in DOMAIN Columns : \A i \in DOMAIN sortedData :
      LET column == Columns[c]
          record == sortedData[i]
          content == cellContent(c, i - 1)
      IN  /\ column.render # "" =>
               content.call = << [fn |-> column.render,
                                  value |-> record[column.dataIndex],
                                  record |-> record, index |-> i - 1] >>
          /\ column.render = "" =>
               /\ content.kind = "text"
               /\ content.call = <<>>
               /\ record[column.dataIndex].t \in {"null", "undefined"}
                    => content.text = <<>>
               /\ record[column.dataIndex].t \in {"string", "number"}
                    => IsStringOf(content.text, record[column.dataIndex])

\* C16 witness: after a sort click a record with a null name is displayed in
\* another row than in the input; its name cell is empty and the formatter of
\* the actions column got its id, the record and the row's position.
C16_Witness ==
  /\ GridShown
  /\ event.op = "sort"
  /\ \E i \in DOMAIN sortedData :
       /\ sortedData[i].name = Null
       /\ data[i] # sortedData[i]
       /\ cellContent(2, i - 1).text = <<>>
       /\ cellContent(1, i - 1).text = <<"3">>
       /\ cellContent(4, i - 1).call[1].index = i - 1
       /\ cellContent(4, i - 1).call[1].record = sortedData[i]

\* The records of a view whose value of field K is neither null nor
\* undefined, in view order.
RECURSIVE NonNullPart(_, _)
NonNullPart(view, K) ==
  IF view = <<>> THEN <<>>
  ELSE (IF IsNullish(Field(Head(view), K)) THEN <<>> ELSE <<Head(view)>>)
       \o NonNullPart(Tail(view), K)

Reverse(q) == [i \in DOMAIN q |-> q[Len(q) + 1 - i]]

\* The position of record r in a view of distinct records.
Pos(view, r) == CHOOSE i \in DOMAIN view : view[i] = r

\* No record with a null or undefined K value precedes one with a defined
\* K value.
NullsLast(view, K) ==
  \A i, j \in DOMAIN view :
    (i < j /\ IsNullish(Field(view[i], K))) => IsNullish(Field(view[j], K))

\* The header click that turns (K, ascending) into (K, descending).
AscToDescStep ==
  /\ event'.op = "sort"
  /\ sortState.direction = "asc"
  /\ sortState' = Desc(sortState.key)

C18_Idempotent ==
  [][ (event'.op = "setData" /\ sortState # NoSort /\ data' = sortedData)
        => sortedData' = sortedData ]_vars

\* C18 witness: a collection already sorted by name descending, with two
\* equal names, was supplied under that sort and is displayed as supplied.
C18_Witness ==
  /\ event.op = "setData"
  /\ sortState = Desc("name")
  /\ sortedData = data
  /\ Len(data) = MaxSortLen
  /\ \E i, j \in DOMAIN data : i # j /\ data[i].name = data[j].name
  /\ \E i, j \in DOMAIN data : i < j /\ compare(data[i], data[j], sortState) < 0

\* C19: a click on a column header leaves the selection set and the
\* all-selected flag as they were, calls no selection callback, and changes
\* nothing else than the sort state and the sorted view.
C19_SortFrame ==
  [][ event'.op = "sort" =>
        /\ selectedRows' = selectedRows
        /\ selectAll' = selectAll
        /\ event'.calls = <<>>
        /\ reported' = reported
        /\ UNCHANGED <<data, rowKey, selectable, onRowSelect, props>> ]_vars

\* C19 witness: a header click has reordered the view of a grid on which
\* every row is selected.
C19_Witness ==
  /\ event.op = "sort"
  /\ sortState # NoSort
  /\ sortedData # data
  /\ selectedRows # {}
  /\ selectAll
  /\ event.before = selectedRows

\* C20: a click on the header of a column that is not sortable changes
\* neither the sort state, nor the sorted view, nor the selection set, nor
\* the all-selected flag, whatever the sort state is, and calls no callback.
C20_NonSortableNoOp ==
  [][ (event'.op = "sort" /\ ~ColumnOf(event'.column).sortable) =>
        /\ UNCHANGED <<sortState, sortedData, selectedRows, selectAll>>
        /\ UNCHANGED <<data, reported>>
        /\ event'.calls = <<>> ]_vars

\* C20 witness: the header of the actions column was clicked while a sort
\* was active and rows were selected.
C20_Witness ==
  /\ event.op = "sort"
  /\ event.column = "actions"
  /\ ~ColumnOf(event.column).sortable
  /\ sortState # NoSort
  /\ sortedData # data
  /\ selectedRows # {}

\* The positions (0-based) of the rows displayed as selected.
SelectedRowPositions ==
  { i \in 0..(Len(sortedData) - 1) : isSelected(i) }

\* handleRowSelect was called to select an identity that no row of the view
\* has.
AbsentToggleStep ==
  /\ event'.op = "toggleRow"
  /\ event'.checked
  /\ event'.rowKey \notin ViewIdentities

C22_Orig ==
  /\ [](shownText(inputField) = inputField.value)
  /\ [][ inputField'.op = "setValue" =>
           shownText(inputField') = inputField'.value ]_vars

\* C22, what the component does: the input shows its own inputValue, which
\* is the value prop of the first render, then the last text typed or ''
\* after a clear; another value prop leaves the shown text as it was; and
\* typing and clearing report the new text to onChange when registered.
C22_ShowsOwnState ==
  /\ [](inputField.op = "init" => shownText(inputField) = inputField.value)
  /\ [][ inputField'.op \notin {"change", "clear"} =>
           shownText(inputField') = shownText(inputField) ]_vars
  /\ [][ inputField'.op \in {"change", "clear"} =>
           /\ inputField'.value = inputField.value
           /\ inputField'.calls
                = IF inputField.onChange THEN <<shownText(inputField')>>
                  ELSE <<>> ]_vars

\* C22 witness: the caller has supplied another value prop and the input
\* still shows the text of the first render.
C22_Witness ==
  /\ inputField.op = "setValue"
  /\ inputField.value # <<>>
  /\ shownText(inputField) # inputField.value
  /\ shownText(inputField) # <<>>

\* C23 as stated: with passwordToggle set and whatever the other props are,
\* the field starts hidden with the toggle labelled 'Show password'; each
\* click on the toggle flips hidden and shown; and the input's type is
\* 'password' exactly when hidden and 'text' exactly when shown.
C23_Orig ==
  /\ [](inputField.passwordToggle =>
         /\ inputField.op = "init" =>
              (~inputField.showPassword
                 /\ toggleLabel(inputField) = "Show password")
         /\ inputAttrType(inputField) = "password"
              <=> ~inputField.showPassword
         /\ inputAttrType(inputField) = "text"
              <=> inputField.showPassword)
  /\ [][ inputField'.op = "toggle" =>
           inputField'.showPassword = ~inputField.showPassword ]_vars

\* C23, what the component does: the toggle state and its label flip at
\* each click, starting hidden, and the computed inputType follows them;
\* the input's type attribute is the caller's type prop when there is one,
\* whatever the toggle state is, and the computed inputType otherwise.
C23_TypePropWins ==
  /\ [](inputField.passwordToggle =>
         /\ inputField.op = "init" =>
              (~inputField.showPassword
                 /\ toggleLabel(inputField) = "Show password")
         /\ toggleLabel(inputField) = "Hide password"
              <=> inputField.showPassword
         /\ inputType(inputField) = "password" <=> ~inputField.showPassword
         /\ inputType(inputField) = "text" <=> inputField.showPassword
         /\ inputField.type # ""
              => inputAttrType(inputField) = inputField.type
         /\ inputField.type = ""
              => inputAttrType(inputField) = inputType(inputField))
  /\ [][ inputField'.op = "toggle" =>
           inputField'.showPassword = ~inputField.showPassword ]_vars

\* C23 witness: the toggle of a field with passwordToggle and
\* type="password" was clicked; the label says the password is shown and
\* the input's type is still 'password'.
C23_Witness ==
  /\ inputField.op = "toggle"
  /\ inputField.passwordToggle
  /\ inputField.type = "password"
  /\ inputField.showPassword
  /\ toggleLabel(inputField) = "Hide password"
  /\ inputAttrType(inputField) = "password"

\* C24: the clear button is offered exactly when clearable is set, the
\* shown text is not empty and the field is not disabled; a click on it
\* empties the shown text, calls a registered onChange exactly once with
\* target.value '', and the button is then not offered; the button is
\* offered again only by typing a non-empty text; and every edit of the
\* text calls a registered onChange exactly once.
C24_Clear ==
  /\ [](clearOffered(inputField)
         <=> (/\ inputField.clearable
              /\ shownText(inputField) # <<>>
              /\ ~inputField.disabled))
  /\ [][ inputField'.op = "clear" =>
           /\ clearOffered(inputField)
           /\ shownText(inputField') = <<>>
           /\ inputField.onChange => inputField'.calls = << <<>> >>
           /\ ~inputField.onChange => inputField'.calls = <<>>
           /\ ~clearOffered(inputField') ]_vars
  /\ [][ (~clearOffered(inputField) /\ clearOffered(inputField')) =>
           (inputField'.op = "change" /\ shownText(inputField') # <<>>)
        ]_vars
  /\ [][ inputField'.op = "change" =>
           /\ shownText(inputField') # shownText(inputField)
           /\ inputField.onChange =>
                inputField'.calls = <<shownText(inputField')>>
           /\ ~inputField.onChange => inputField'.calls = <<>> ]_vars

\* C24 witness: the clear button of a field with a registered onChange was
\* clicked; the text is empty, onChange got '' once, and the button is gone
\* although the value prop is not empty.
C24_Witness ==
  /\ inputField.op = "clear"
  /\ inputField.onChange
  /\ inputField.clearable
  /\ inputField.calls = << <<>> >>
  /\ shownText(inputField) = <<>>
  /\ inputField.value # <<>>
  /\ ~clearOffered(inputField)

\* The comparison of two defined values that the claim names: strings by
\* locale order, numbers by difference, any other pair by the locale order
\* of their string forms.
TypedCompare(x, y) ==
  IF x.t = "string" /\ y.t = "string" THEN localeCompare(x.s, y.s)
  ELSE IF x.t = "number" /\ y.t = "number" THEN x.n - y.n
  ELSE localeCompare(String(x), String(y))

\* C25: for the two records of a pair whose values of the sort key are
\* defined and different, the comparator gives the typed comparison under
\* ascending and its negation under descending; so the sorted view has the
\* record with the smaller value first under ascending and the one with
\* the larger value first under descending.
C25_TypedOrder ==
  (sortState # NoSort /\ Len(sortedData) = 2) =>
    LET K == sortState.key
        x == Field(data[1], K)
        y == Field(data[2], K)
        first == Field(sortedData[1], K)
        second == Field(sortedData[2], K)
    IN  (x # y /\ ~IsNullish(x) /\ ~IsNullish(y)) =>
          /\ sortState.direction = "asc" =>
               /\ compare(data[1], data[2], sortState) = TypedCompare(x, y)
               /\ TypedCompare(first, second) <= 0
               /\ TypedCompare(x, y) > 0 => sortedData = <<data[2], data[1]>>
          /\ sortState.direction = "desc" =>
               /\ compare(data[1], data[2], sortState) = -TypedCompare(x, y)
               /\ TypedCompare(first, second) >= 0
               /\ TypedCompare(x, y) < 0 => sortedData = <<data[2], data[1]>>

\* C25 witness: a number and a string, compared on their string forms, were
\* swapped by the descending sort.
C25_Witness ==
  /\ event.op = "sort"
  /\ sortState = Desc("name")
  /\ Len(data) = 2
  /\ data[1].name.t = "number"
  /\ data[2].name.t = "string"
  /\ sortedData = <<data[2], data[1]>>
  /\ TypedCompare(data[1].name, data[2].name) < 0

\* C26: under an active sort on key K, in either direction, two records
\* whose K values are identical appear in the sorted view in the same
\* relative order as in the collection supplied.
C26_Stable ==
  sortState # NoSort =>
    \A i, j \in DOMAIN sortedData :
      (i < j /\ Field(sortedData[i], sortState.key)
                 = Field(sortedData[j], sortState.key))
        => Pos(data, sortedData[i]) < Pos(data, sortedData[j])

\* C26 witness: the descending sort by name has moved a record in front of
\* two records of the same name, which are in their input order.
C26_Witness ==
  /\ sortState = Desc("name")
  /\ sortedData # data
  /\ \E i, j \in DOMAIN sortedData :
       /\ i < j
       /\ ~IsNullish(sortedData[i].name)
       /\ sortedData[i].name = sortedData[j].name
       /\ Pos(data, sortedData[i]) < Pos(data, sortedData[j])
       /\ \E k \in DOMAIN sortedData :
            k < i /\ Pos(data, sortedData[k]) > Pos(data, sortedData[j])

\* C27: right after a row toggle the all-selected flag is true exactly when
\* the updated selection set has as many identities as the sorted view has
\* records; a sort click and a replacement of the collection leave the
\* flag as it was.
C27_FlagBySize ==
  /\ [][ event'.op = "toggleRow" =>
           selectAll' = (Cardinality(selectedRows') = Len(sortedData')) ]_vars
  /\ [][ event'.op \in {"sort", "setData"} => selectAll' = selectAll ]_vars

\* C27 witness: a row toggle has set the flag by the sizes although a row
\* of the view is not selected, the set holding an identity that no row
\* has.
C27_Witness ==
  /\ event.op = "toggleRow"
  /\ selectAll
  /\ Cardinality(selectedRows) = Len(sortedData)
  /\ \E i \in 0..(Len(sortedData) - 1) : ~isSelected(i)

\* Every row of the view is displayed as selected.
AllRowsSelected == \A i \in 0..(Len(sortedData) - 1) : isSelected(i)

\* C28 as stated: whenever the grid is displayed with its checkboxes, the
\* select-all checkbox is checked exactly when every row of the sorted view
\* is displayed as selected.
C28_Orig ==
  (GridShown /\ selectable) => (selectAll <=> AllRowsSelected)

\* C28, what the handlers keep: right after a select-all toggle the
\* checkbox is checked exactly when every row is displayed as selected, and
\* right after a row toggle it is checked exactly when the selection set
\* has as many identities as the view has rows.
C28_FlagAfterToggle ==
  (GridShown /\ selectable) =>
    /\ event.op = "toggleAll" => (selectAll <=> AllRowsSelected)
    /\ event.op = "toggleRow" =>
         (selectAll <=> Cardinality(selectedRows) = Len(sortedData))

\* C28 witness: after a replacement of the collection the select-all
\* checkbox is still checked and no row is displayed as selected.
C28_Witness ==
  /\ GridShown
  /\ selectable
  /\ event.op = "setData"
  /\ selectAll
  /\ \A i \in 0..(Len(sortedData) - 1) : ~isSelected(i)

\* A rowKey selector is supplied and gives different identities to the
\* different records of the collection.
DistinctIdentities ==
  /\ rowKey # NoRowKey
  /\ \A i, j \in DOMAIN data :
       i # j => getRowKey(rowKey, data[i], i - 1)
                  # getRowKey(rowKey, data[j], j - 1)

\* C29: with a rowKey selector that gives distinct identities to the
\* records of the collection, a sort click leaves the set of records
\* displayed as selected, and the last report to the callback, as they
\* were; and each selection handler reports to a registered callback
\* exactly the records then displayed as selected.  So over a fixed
\* collection the records displayed as selected are those of the most
\* recent report, across any sequence of sort clicks.
C29_SelectionFollowsRecords ==
  /\ [][ (event'.op = "sort" /\ DistinctIdentities) =>
           /\ DisplayedSelected' = DisplayedSelected
           /\ reported' = reported
           /\ (reported # <<>> /\ Range(reported[1]) = DisplayedSelected)
                => Range(reported'[1]) = DisplayedSelected' ]_vars
  /\ [][ (event'.op \in {"toggleRow", "toggleAll"}
            /\ onRowSelect /\ DistinctIdentities) =>
           /\ reported' # <<>>
           /\ Range(reported'[1]) = DisplayedSelected' ]_vars

\* C29 witness: a sort click has moved the one selected record of two to
\* another position; it is still the record displayed as selected and the
\* one of the last report.
C29_Witness ==
  /\ event.op = "sort"
  /\ DistinctIdentities
  /\ onRowSelect
  /\ sortedData # data
  /\ Len(sortedData) = 2
  /\ reported # <<>>
  /\ Len(reported[1]) = 1
  /\ DisplayedSelected = {reported[1][1]}
  /\ isSelected(0)
  /\ sortedData[1] = data[2]

\* The records of a view are in the order of field F for direction dir:
\* defined values first, in the typed order or its reverse.
OrderedByField(view, F, dir) ==
  \A i, j \in DOMAIN view :
    i < j =>
      LET x == Field(view[i], F)
          y == Field(view[j], F)
      IN  /\ IsNullish(x) => IsNullish(y)
          /\ (~IsNullish(x) /\ ~IsNullish(y)) =>
               IF dir = "asc" THEN TypedCompare(x, y) <= 0
               ELSE TypedCompare(x, y) >= 0

\* C30: the active sort orders the view by the field that the sort key,
\* the clicked column's key, names: for a column whose key is its dataIndex
\* that is the displayed field; for the sortable column whose key names no
\* field the view is the collection as supplied, whatever field the column
\* displays, while its header shows the indicator of the direction.
C30_SortsByKey ==
  sortState # NoSort =>
    LET column == ColumnOf(sortState.key)
    IN  /\ OrderedByField(sortedData, column.key, sortState.direction)
        /\ column.key = column.dataIndex =>
             OrderedByField(sortedData, column.dataIndex,
                            sortState.direction)
        /\ (\A i \in DOMAIN data : column.key \notin DOMAIN data[i]) =>
             /\ sortedData = data
             /\ getSortIcon(column, sortState) = sortState.direction
             /\ \A i, j \in DOMAIN data :
                  compare(data[i], data[j], sortState) = 0

\* C30 witness: the label column, which displays the name field, was
\* clicked twice; the header shows the descending indicator and the view
\* is the collection as supplied, which is not in descending name order.
C30_Witness ==
  /\ event.op = "sort"
  /\ sortState = Desc("label")
  /\ ColumnOf("label").dataIndex = "name"
  /\ getSortIcon(ColumnOf("label"), sortState) = "desc"
  /\ sortedData = data
  /\ Len(data) = MaxSortLen
  /\ ~OrderedByField(sortedData, "name", "desc")

====
